---- MODULE Spec2Model ----
(***************************************************************************)
(* techread: the digest reading-time budgeter (cli/posts.py, digest) and   *)
(* the scoring engine (rank/scoring.py, score_post).                       *)
(*                                                                         *)
(* Floating-point quantities (scores, freshness, weights, penalties) are   *)
(* held as integers in millionths ("micro"): 1.0 is 1000000.  An           *)
(* efficiency score/minutes is held as the fraction [num, den] and         *)
(* compared by cross-multiplication (den >= 1).  Timestamps are whole      *)
(* hours on a UTC time line.                                               *)
(***************************************************************************)
EXTENDS Integers, Sequences, FiniteSets

VARIABLES
    pc,         \* position inside the digest command
    opt_top,    \* digest --top option as given on the command line
    top,        \* digest's `top` once clamped
    minutes,    \* digest --minutes option
    ranked,     \* rows matching the digest filters, ORDER BY sc.score DESC
    items,      \* digest's `items` list
    chosen,     \* digest's `chosen` list
    remaining,  \* digest's `remaining` budget
    idx,        \* index of the greedy loop's next element of `items`
    printed,    \* what print_digest showed: per post, its id and minutes
    spc,        \* position of the score_post call
    args,       \* score_post's keyword arguments
    loc,        \* score_post's local variables at its return (unrounded)
    res,        \* what score_post returned (a ScoreResult) or that it raised
    clock,      \* the wall clock (datetime.now), in hours
    calls,      \* the score_post calls made so far: arguments, result, time
    posts,      \* the posts table joined with its source: row i has id i
    scores,     \* the scores table as committed in the database file
    conn,       \* the connection of the current session block
    txn,        \* the scores table as the open connection sees it
    before,     \* the committed scores table when the block was entered
    last,       \* per post, the values of the block's latest upsert_score call
    nwrites,    \* number of upsert_score calls made in the block
    outcome,    \* how the latest session block ended
    cmd,        \* what ran in the latest session block
    ranked_out, \* the rows rank printed
    ptable,     \* the posts table with the columns the commands read
    summaries,  \* the summaries table
    llm_model,  \* settings.llm_model
    ran         \* the latest command: its name, exit code and output

dvars == <<pc, opt_top, top, minutes, ranked, items, chosen, remaining, idx,
           printed>>
svars == <<spc, args, loc, res, clock, calls>>
bvars == <<posts, scores, conn, txn, before, last, nwrites, outcome, cmd,
           ranked_out>>
cvars == <<ptable, summaries, llm_model, ran>>
vars == <<dvars, svars, bvars, cvars>>

----------------------------------------------------------------------------
(* Bounds of the model *)

MaxRows == 3
MaxTop == 2
MaxMinutes == 3
MaxWcStep == 2
MaxWordCount == 1000

(* Program constants *)

One == 1000000
WordsPerMinute == 220
CandidateFactor == 3

----------------------------------------------------------------------------
(* Helpers *)

Min(a, b) == IF a <= b THEN a ELSE b
Max(a, b) == IF a >= b THEN a ELSE b

Take(s, n) == SubSeq(s, 1, Min(n, Len(s)))

\* (a slip: round half up, 2.5 going to 3)
RoundHalfUp(a, b) == (2 * a + b) \div (2 * b)

\* Python's round() of the quotient a / b (a >= 0, b > 0): to the nearest
\* integer, an exact half going to the even neighbour.
RoundHalfEven(a, b) ==
    LET q == a \div b
        r == a % b
    IN  IF 2 * r < b THEN q
        ELSE IF 2 * r > b THEN q + 1
        ELSE IF q % 2 = 0 THEN q ELSE q + 1

\* (a slip: the one-minute floor left out)
EstimatedMinutesNoFloor(wc) ==
    IF wc # 0 THEN RoundHalfEven(wc, WordsPerMinute) ELSE 1

\* it["_mins"] = max(1, int(round(wc / 220.0))) if wc else 1
EstimatedMinutes(wc) ==
    IF wc # 0 THEN Max(1, RoundHalfEven(wc, WordsPerMinute)) ELSE 1

\* print_digest: mins = max(1, int(round(wc / 220.0))) if wc else 1
PrintedMinutes(wc) ==
    IF wc # 0 THEN Max(1, RoundHalfEven(wc, WordsPerMinute)) ELSE 1

\* it["_ratio"] = float(it["score"]) / float(it["_mins"])
Ratio(score, mins) == [num |-> score, den |-> mins]

RatioLess(a, b) == a.num * b.den < b.num * a.den

Annotate(it) ==
    LET m == EstimatedMinutes(it.word_count)
    IN  [id |-> it.id, score |-> it.score, word_count |-> it.word_count,
         mins |-> m, ratio |-> Ratio(it.score, m)]

\* (a slip: an unstable sort, x going before the elements of equal ratio)
RECURSIVE InsertBeforeEqual(_, _)
InsertBeforeEqual(s, x) ==
    IF s = << >> THEN <<x>>
    ELSE IF ~RatioLess(x.ratio, Head(s).ratio) THEN <<x>> \o s
    ELSE <<Head(s)>> \o InsertBeforeEqual(Tail(s), x)

\* One insertion of list.sort(key=_ratio, reverse=True): x goes after every
\* element whose ratio is greater than or equal to its own (stable).
RECURSIVE InsertByRatio(_, _)
InsertByRatio(s, x) ==
    IF s = << >> THEN <<x>>
    ELSE IF RatioLess(Head(s).ratio, x.ratio) THEN <<x>> \o s
    ELSE <<Head(s)>> \o InsertByRatio(Tail(s), x)

\* (a slip: the re-sort left out)
SortOmitted(s) == s

\* items.sort(key=lambda x: x["_ratio"], reverse=True)
RECURSIVE SortByRatioDesc(_)
SortByRatioDesc(s) ==
    IF s = << >> THEN << >>
    ELSE InsertByRatio(SortByRatioDesc(SubSeq(s, 1, Len(s) - 1)), s[Len(s)])

RECURSIVE SumMins(_)
SumMins(s) == IF s = << >> THEN 0 ELSE Head(s).mins + SumMins(Tail(s))

----------------------------------------------------------------------------
(* Inputs *)

Scores == {-100000, 500000, 900000, 1000000}
WordCounts == {WordsPerMinute * k : k \in 0..MaxWcStep}

\* Rows as the ranked query returns them before LIMIT: distinct posts, in
\* non-increasing score order (ties in any order).
RowLists(n) ==
    {r \in [1..n -> [score : Scores, word_count : WordCounts]] :
        \A i \in 1..n : \A j \in 1..n : i < j => r[i].score >= r[j].score}

WithIds(r) ==
    [i \in 1..Len(r) |->
        [id |-> i, score |-> r[i].score, word_count |-> r[i].word_count]]

\* No score_post call in progress
ScoreIdle ==
    /\ spc = "idle"
    /\ args = << >>
    /\ loc = << >>
    /\ res = << >>
    /\ clock = 0
    /\ calls = << >>

\* No command run on a database
StoreIdle ==
    /\ ptable = << >>
    /\ summaries = {}
    /\ llm_model = "none"
    /\ ran = << >>

\* No database in use
DbIdle ==
    /\ posts = << >>
    /\ scores = {}
    /\ conn = "none"
    /\ txn = {}
    /\ before = {}
    /\ last = << >>
    /\ nwrites = 0
    /\ outcome = "none"
    /\ cmd = "none"
    /\ ranked_out = << >>

----------------------------------------------------------------------------
(* digest *)

InitDigest ==
    /\ StoreIdle
    /\ pc = "start"
    /\ opt_top \in 0..MaxTop
    /\ top = opt_top
    /\ minutes \in -1..MaxMinutes
    /\ \E n \in 0..MaxRows : \E r \in RowLists(n) : ranked = WithIds(r)
    /\ items = << >>
    /\ chosen = << >>
    /\ remaining = 0
    /\ idx = 0
    /\ printed = << >>
    /\ ScoreIdle
    /\ DbIdle

\* (a slip: the ranked query without its LIMIT)
DigestQueryNoLimit ==
    /\ pc = "start"
    /\ top' = Max(1, top)
    /\ items' = ranked
    /\ pc' = "queried"
    /\ UNCHANGED <<opt_top, minutes, ranked, chosen, remaining, idx, printed,
                   svars, bvars, cvars>>

\* top = max(1, int(top)); ranked query with LIMIT top * 3
DigestQuery ==
    /\ pc = "start"
    /\ top' = Max(1, top)
    /\ items' = Take(ranked, Max(1, top) * CandidateFactor)
    /\ pc' = "queried"
    /\ UNCHANGED <<opt_top, minutes, ranked, chosen, remaining, idx, printed,
                   svars, bvars, cvars>>

\* (a slip: `if minutes:` alone, a negative budget taken as a budget)
HasBudgetTruthy(m) == m # 0

\* if minutes and int(minutes) > 0:
HasBudget(m) == m # 0 /\ m > 0

\* The budgeted branch: annotate, sort by efficiency, start the greedy pass
DigestBudget ==
    /\ pc = "queried"
    /\ HasBudget(minutes)
    /\ items' = SortByRatioDesc([i \in 1..Len(items) |-> Annotate(items[i])])
    /\ chosen' = << >>
    /\ remaining' = minutes
    /\ idx' = 1
    /\ pc' = "loop"
    /\ UNCHANGED <<opt_top, top, minutes, ranked, printed,
                   svars, bvars, cvars>>

\* else: items = items[:top]
DigestTruncate ==
    /\ pc = "queried"
    /\ ~HasBudget(minutes)
    /\ items' = Take(items, top)
    /\ pc' = "done"
    /\ UNCHANGED <<opt_top, top, minutes, ranked, chosen, remaining, idx, printed,
                   svars, bvars, cvars>>

\* (a slip: < for <=, an item that exactly fills the budget is left out)
FitsStrictly(it, rem) == it.mins < rem

\* (a slip: any item accepted while some budget remains)
FitsWhileBudgetLeft(it, rem) == rem > 0

\* if it["_mins"] <= remaining:
Fits(it, rem) == it.mins <= rem

\* (a slip: > for >=, one item too many)
StopConditionOffByOne(ch, rem) == rem <= 0 \/ Len(ch) > top

\* if remaining <= 0 or len(chosen) >= top: break
StopCondition(ch, rem) == rem <= 0 \/ Len(ch) >= top

\* The loop body's tail: break (and items = chosen), or go on to the next item
AfterItem(ch, rem) ==
    IF StopCondition(ch, rem)
    THEN /\ pc' = "done"
         /\ items' = ch
         /\ idx' = idx
    ELSE /\ pc' = "loop"
         /\ items' = items
         /\ idx' = idx + 1

\* One iteration whose item fits: chosen.append(it); remaining -= it["_mins"]
DigestAccept ==
    /\ pc = "loop"
    /\ idx <= Len(items)
    /\ Fits(items[idx], remaining)
    /\ chosen' = Append(chosen, items[idx])
    /\ remaining' = remaining - items[idx].mins
    /\ AfterItem(Append(chosen, items[idx]), remaining - items[idx].mins)
    /\ UNCHANGED <<opt_top, top, minutes, ranked, printed,
                   svars, bvars, cvars>>

\* (a slip: an item that does not fit ends the pass)
DigestSkipBreaks ==
    /\ pc = "loop"
    /\ idx <= Len(items)
    /\ ~Fits(items[idx], remaining)
    /\ pc' = "done"
    /\ items' = chosen
    /\ UNCHANGED <<opt_top, top, minutes, ranked, chosen, remaining, idx, printed,
                   svars, bvars, cvars>>

\* One iteration whose item does not fit
DigestSkip ==
    /\ pc = "loop"
    /\ idx <= Len(items)
    /\ ~Fits(items[idx], remaining)
    /\ AfterItem(chosen, remaining)
    /\ UNCHANGED <<opt_top, top, minutes, ranked, chosen, remaining, printed,
                   svars, bvars, cvars>>

\* The for loop runs out of items: items = chosen
DigestExhausted ==
    /\ pc = "loop"
    /\ idx > Len(items)
    /\ items' = chosen
    /\ pc' = "done"
    /\ UNCHANGED <<opt_top, top, minutes, ranked, chosen, remaining, idx, printed,
                   svars, bvars, cvars>>

\* print_digest(items): each post with the minutes computed from its
\* word count
DigestPrint ==
    /\ pc = "done"
    /\ printed' = [i \in 1..Len(items) |->
                     [id |-> items[i].id,
                      mins |-> PrintedMinutes(items[i].word_count)]]
    /\ pc' = "printed"
    /\ UNCHANGED <<opt_top, top, minutes, ranked, items, chosen, remaining, idx,
                   svars, bvars, cvars>>

Next ==
    \/ DigestQuery
    \/ DigestBudget
    \/ DigestTruncate
    \/ DigestAccept
    \/ DigestSkip
    \/ DigestExhausted
    \/ DigestPrint

SpecDigest == InitDigest /\ [][Next]_vars

\* One candidate of any word count up to MaxWordCount: the reading-time
\* estimate on every input.
InitEstimate ==
    /\ StoreIdle
    /\ pc = "start"
    /\ opt_top = 1
    /\ top = opt_top
    /\ minutes \in {0, 1, 5}
    /\ \E wc \in 0..MaxWordCount :
          ranked = <<[id |-> 1, score |-> One, word_count |-> wc]>>
    /\ items = << >>
    /\ chosen = << >>
    /\ remaining = 0
    /\ idx = 0
    /\ printed = << >>
    /\ ScoreIdle
    /\ DbIdle

SpecEstimate == InitEstimate /\ [][Next]_vars

\* More matching posts than the ranked query's LIMIT lets through: top is 0
\* or 1, so the LIMIT is 3, and there are 4 to MaxManyRows rows, of two
\* scores and of 0 or 440 words.
MaxManyRows == 4

ManyRowLists(n) ==
    {r \in [1..n -> [score : {900000, 1000000},
                     word_count : {0, 2 * WordsPerMinute}]] :
        \A i \in 1..n : \A j \in 1..n : i < j => r[i].score >= r[j].score}

InitManyRows ==
    /\ StoreIdle
    /\ pc = "start"
    /\ opt_top \in 0..1
    /\ top = opt_top
    /\ minutes \in -1..MaxMinutes
    /\ \E n \in (CandidateFactor + 1)..MaxManyRows :
          \E r \in ManyRowLists(n) : ranked = WithIds(r)
    /\ items = << >>
    /\ chosen = << >>
    /\ remaining = 0
    /\ idx = 0
    /\ printed = << >>
    /\ ScoreIdle
    /\ DbIdle

SpecManyRows == InitManyRows /\ [][Next]_vars

----------------------------------------------------------------------------
(* Properties of digest *)

max_items == Max(1, opt_top)

Budgeted == minutes > 0

\* The candidates of the run, annotated and in the order the pass examines them
Candidates ==
    LET c == Take(ranked, max_items * CandidateFactor)
    IN  SortByRatioDesc([i \in 1..Len(c) |-> Annotate(c[i])])

Ids(s) == [i \in 1..Len(s) |-> s[i].id]

Position(s, id) == CHOOSE k \in 1..Len(s) : s[k].id = id

\* a's efficiency score / estimated_minutes is below b's
EfficiencyLess(a, b) ==
    a.score * EstimatedMinutes(b.word_count)
        < b.score * EstimatedMinutes(a.word_count)

\* C1: with a budget B > 0 the remaining budget is never negative during the
\* greedy pass, and the minutes of the selected items sum to at most B.
C1_BudgetRespected ==
    (Budgeted /\ pc \in {"loop", "done"}) =>
        /\ remaining >= 0
        /\ SumMins(chosen) + remaining = minutes
        /\ pc = "done" => (items = chosen /\ SumMins(items) <= minutes)

C1_Witness ==
    /\ Budgeted /\ pc = "done"
    /\ Len(items) >= 2
    /\ SumMins(items) = minutes
    /\ Len(Candidates) > Len(items)

\* C2: whatever the budget, digest outputs at most max_items = max(1, top)
\* items; while the greedy pass can still accept, the accepted count is
\* below max_items and the remaining budget is above 0.
C2_AtMostMaxItems ==
    /\ pc = "done" => Len(items) <= max_items
    /\ pc = "loop" => (Len(chosen) < max_items /\ remaining > 0)

C2_Witness ==
    /\ pc = "done" /\ Budgeted
    /\ opt_top = 0
    /\ Len(items) = 1
    /\ remaining > 0
    /\ Len(ranked) >= 2

ExampleRows ==
    <<[id |-> 1, score |-> 1000000, word_count |-> 220],
      [id |-> 2, score |-> 900000, word_count |-> 440],
      [id |-> 3, score |-> 500000, word_count |-> 220]>>

\* C3: an item that does not fit is skipped and the pass goes on to the next
\* item; an examined item that fits is accepted.  For the rows (1.0, 220),
\* (0.9, 440), (0.5, 220), budget 2 and max_items >= 2 the selection is item 1
\* then item 3, 2 minutes in all.
C3_SkipContinues ==
    /\ []((pc = "done" /\ ranked = ExampleRows /\ minutes = 2 /\ max_items >= 2)
            => (Ids(items) = <<1, 3>> /\ SumMins(items) = 2))
    /\ [][(pc = "loop" /\ idx <= Len(items)) =>
            IF items[idx].mins <= remaining
            THEN chosen' = Append(chosen, items[idx])
            ELSE /\ chosen' = chosen
                 /\ remaining' = remaining
                 /\ pc' = "loop"
                 /\ idx' = idx + 1]_vars

\* an item was skipped and an item after it was accepted
C3_Witness ==
    /\ pc = "done" /\ Budgeted
    /\ \E i \in 1..Len(Candidates) : \E j \in 1..Len(Candidates) :
          /\ i < j
          /\ \A k \in 1..Len(items) : items[k].id # Candidates[i].id
          /\ \E k \in 1..Len(items) : items[k].id = Candidates[j].id

\* C4: with budget_minutes <= 0 the output is the first max_items rows of the
\* score-descending list, unchanged, whatever their word counts.
C4_NoBudgetPassthrough ==
    (pc = "done" /\ minutes <= 0) => items = Take(ranked, max_items)

C4_Witness ==
    /\ pc = "done" /\ minutes < 0
    /\ Len(ranked) = 3
    /\ Len(items) = 2
    /\ items[1].word_count > items[2].word_count
    /\ items[1].score = items[2].score

\* C5: with a budget > 0 the output is in non-increasing order of
\* score / estimated_minutes and is a subsequence of the efficiency-sorted
\* candidates.
C5_EfficiencyOrder ==
    (pc = "done" /\ Budgeted) =>
        /\ \A i \in 1..Len(items) : \A j \in 1..Len(items) :
              i < j => ~EfficiencyLess(items[i], items[j])
        /\ \A i \in 1..Len(items) :
              \E k \in 1..Len(Candidates) : Candidates[k] = items[i]
        /\ \A i \in 1..Len(items) : \A j \in 1..Len(items) :
              i < j => Position(Candidates, items[i].id)
                         < Position(Candidates, items[j].id)

\* the output order differs from the score-descending input order
C5_Witness ==
    /\ pc = "done" /\ Budgeted
    /\ Len(items) >= 2
    /\ items[1].id > items[2].id
    /\ items[1].score < items[2].score

\* C6: every candidate's estimated_minutes is an integer >= 1: 1 for a word
\* count of 0, else max(1, r) with r an integer nearest to word_count / 220;
\* the efficiency's divisor is that estimate, never 0.
C6_EstimatedMinutes ==
    pc = "loop" =>
        \A i \in 1..Len(items) :
            LET wc == items[i].word_count
                m == items[i].mins
            IN  /\ m \in Nat /\ m >= 1
                /\ wc = 0 => m = 1
                /\ wc > 0 =>
                      \E r \in 0..(wc \div WordsPerMinute + 1) :
                          /\ 2 * r * WordsPerMinute - 2 * wc <= WordsPerMinute
                          /\ 2 * wc - 2 * r * WordsPerMinute <= WordsPerMinute
                          /\ m = Max(1, r)
                /\ items[i].ratio.den = m
                /\ items[i].ratio.num = items[i].score

\* a word count below half a minute's worth, costing the one-minute floor
C6_Witness ==
    /\ pc = "loop"
    /\ Len(items) = 1
    /\ items[1].word_count > 0
    /\ 2 * items[1].word_count < WordsPerMinute
    /\ items[1].mins = 1

----------------------------------------------------------------------------
(* score_post (rank/scoring.py) and the utilities it calls *)

\* A text is held run-length encoded: `pad` filler characters "x" followed by
\* the characters of `tail`, a sequence of one-character strings.  A keyword
\* is a plain sequence of one-character strings.
Text(n, t) == [pad |-> n, tail |-> t]

TextLen(t) == t.pad + Len(t.tail)

CharAt(t, i) == IF i <= t.pad THEN "x" ELSE t.tail[i - t.pad]

\* t[:n]
Slice(t, n) ==
    [pad |-> Min(t.pad, Max(0, n)), tail |-> Take(t.tail, Max(0, n - t.pad))]

LowerChar(c) ==
    CASE c = "A" -> "a"
      [] c = "I" -> "i"
      [] c = "G" -> "g"
      [] c = "O" -> "o"
      [] c = "R" -> "r"
      [] c = "S" -> "s"
      [] OTHER -> c

\* str.lower() of a keyword and of a text
LowerSeq(n) == [i \in 1..Len(n) |-> LowerChar(n[i])]
Lower(t) == [pad |-> t.pad, tail |-> LowerSeq(t.tail)]

\* n in t: n occurs at some offset of t.  The filler run is uniform, so an
\* occurrence that starts more than Len(n) before its end recurs at the
\* offset t.pad - Len(n); only the offsets from there on are tried.
IsSubstring(n, t) ==
    \E i \in Max(0, t.pad - Len(n))..(TextLen(t) - Len(n)) :
        \A k \in 1..Len(n) : CharAt(t, i + k) = n[k]

\* (a slip: the `n and` test is dropped, so an empty keyword counts)
contains_anyCountsEmpty(text, needles) ==
    LET t == Lower(text)
    IN  Cardinality({k \in 1..Len(needles) :
            IsSubstring(LowerSeq(needles[k]), t)})

\* contains_any: t = (text or "").lower();
\* sum(1 for n in needles if n and n.lower() in t)
contains_any(text, needles) ==
    LET t == Lower(text)
    IN  Cardinality({k \in 1..Len(needles) :
            needles[k] # << >> /\ IsSubstring(LowerSeq(needles[k]), t)})

\* A timestamp string is what dateutil reads from it: whether it parses at
\* all, the wall-clock hour it names, and its UTC offset if it names one.
\* parse_datetime_iso raises on a string that does not parse, takes a string
\* without offset as UTC and converts any other to UTC.
ParseDatetimeIso(dt_str) ==
    IF ~dt_str.parses THEN [raised |-> TRUE, dt |-> 0]
    ELSE [raised |-> FALSE,
          dt |-> IF dt_str.has_tz THEN dt_str.hour - dt_str.offset
                 ELSE dt_str.hour]

\* a * b for a, b in millionths, within 32-bit intermediate products
MulMicro(a, b) ==
    ((a \div 1000) * b) \div 1000 + ((a % 1000) * b) \div One

\* exp(-1 / 36.0) in millionths
DecayPerHour == 972604

\* The hourly decay factor raised to the power h by squaring, in millionths
\* (within 0.00003 of exp(-h / 36.0), and strictly decreasing, up to 350)
RECURSIVE DecayPower(_)
DecayPower(h) ==
    IF h <= 0 THEN One
    ELSE LET half == DecayPower(h \div 2)
             square == MulMicro(half, half)
         IN  IF h % 2 = 0 THEN square
             ELSE MulMicro(square, DecayPerHour)

\* The first whole-hour age at which math.exp(-age_hours / 36.0) is 0.0 in
\* double precision (exp underflows below about -745.13)
UnderflowHours == 26825

\* (a slip: a linear decay that reaches 0 after 36 hours)
_freshnessLinear(age_hours) == Max(0, One - age_hours * (One \div 36))

\* _freshness: float(math.exp(-age_hours / 36.0)) for whole hours, in
\* millionths.  A double result that is positive and below one millionth is
\* kept as the smallest positive value; from UnderflowHours on it is 0.0.
_freshness(age_hours) ==
    IF age_hours >= UnderflowHours THEN 0
    ELSE Max(1, DecayPower(age_hours))

ScanLimit == 2000
HitValue == 150000
TopicCap == 600000
PenaltyWords == 2500

\* round(x, places) of a value in millionths, unit = 10^(6 - places)
RoundTo(x, unit) == RoundHalfEven(x, unit) * unit

\* (a slip: the fallback is the epoch, not `now`)
PublishedDtEpochFallback(a) ==
    LET parsed == ParseDatetimeIso(a.published_at_iso)
    IN  IF parsed.raised THEN 0 ELSE parsed.dt

\* published_dt of score_post: the parsed time, or `now` when parsing raises
PublishedDt(a) ==
    LET parsed == ParseDatetimeIso(a.published_at_iso)
    IN  IF parsed.raised THEN a.now ELSE parsed.dt

\* (a slip: the age of a future-dated post is left negative)
AgeHoursSigned(a) == a.now - PublishedDt(a)

\* (a slip: the age is taken from the wall clock, not from `now`)
AgeHoursWallClock(a) == Max(0, clock - PublishedDt(a))

\* age_hours = max(0.0, (now - published_dt).total_seconds() / 3600.0)
AgeHours(a) == Max(0, a.now - PublishedDt(a))

\* (a slip: the whole content is scanned, not its first 2000 characters)
TopicHitsWholeContent(a) ==
    contains_any(a.title, a.topics) + contains_any(a.content_text, a.topics)

\* topic_hits = contains_any(title, topics)
\*              + contains_any(content_text[:2000], topics)
TopicHits(a) ==
    contains_any(a.title, a.topics)
        + contains_any(Slice(a.content_text, ScanLimit), a.topics)

\* (a slip: the cap left out)
TopicScoreUncapped(topic_hits) == topic_hits * HitValue

\* topic_score = min(topic_hits * 0.15, 0.6)
TopicScore(topic_hits) == Min(topic_hits * HitValue, TopicCap)

\* (a slip: the cap left out)
LengthPenaltyUncapped(word_count) ==
    (word_count * (One \div PenaltyWords) * 30) \div 100

\* length_penalty = min((word_count / 2500.0), 1.0) * 0.30
LengthPenalty(word_count) ==
    (Min(word_count * (One \div PenaltyWords), One) * 30) \div 100

\* (a slip: the length penalty added, not subtracted)
FinalScorePenaltyAdded(freshness, source_weight, topic_score, length_penalty) ==
    (100 * freshness + 20 * source_weight + 70 * topic_score
        + 100 * length_penalty) \div 100

\* (a slip: the score clamped to the 0.0 to 1.0 of the docstring)
FinalScoreClamped(freshness, source_weight, topic_score, length_penalty) ==
    Max(0, Min(One,
        (100 * freshness + 20 * source_weight + 70 * topic_score
            - 100 * length_penalty) \div 100))

\* score = 1.00 * freshness + 0.20 * source_weight + 0.70 * topic_score
\*         - 1.00 * length_penalty
FinalScore(freshness, source_weight, topic_score, length_penalty) ==
    (100 * freshness + 20 * source_weight + 70 * topic_score
        - 100 * length_penalty) \div 100

\* The local variables of score_post when it returns
Locals(a) ==
    LET age_hours == AgeHours(a)
        freshness == _freshness(age_hours)
        topic_hits == TopicHits(a)
        topic_score == TopicScore(topic_hits)
        length_penalty == LengthPenalty(a.word_count)
    IN  [published_dt |-> PublishedDt(a),
         age_hours |-> age_hours,
         freshness |-> freshness,
         topic_hits |-> topic_hits,
         topic_score |-> topic_score,
         length_penalty |-> length_penalty,
         score |-> FinalScore(freshness, a.source_weight, topic_score,
                              length_penalty)]

\* ScoreResult(score=float(score), breakdown=breakdown)
ScoreResult(a, l) ==
    [raised |-> FALSE,
     score |-> l.score,
     breakdown |->
        [age_hours |-> l.age_hours,
         freshness |-> RoundTo(l.freshness, 100),
         source_weight |-> RoundTo(a.source_weight, 1000),
         topic_hits |-> l.topic_hits,
         topic_score |-> RoundTo(l.topic_score, 1000),
         word_count |-> a.word_count,
         length_penalty |-> RoundTo(l.length_penalty, 1000),
         final |-> RoundTo(l.score, 100)]]

(* Inputs of score_post *)

MaxPenaltyStep == 4
NowHour == 240

kwAI == <<"a", "i">>
kwGo == <<"G", "o">>
kwRs == <<"r", "s">>

Titles ==
    { Text(0, << >>),
      Text(0, <<"A", "I">>),
      Text(0, <<"a", "i", "a", "i">>),
      Text(0, <<"a", "i", " ", "g", "o", " ", "r", "s">>) }

\* The last three: "rs" ending at offset 2000, straddling it, and beyond it
Contents ==
    { Text(0, << >>),
      Text(0, <<"G", "o", " ", "a", "i">>),
      Text(0, <<"A", "I", " ", "G", "O", " ", "R", "S">>),
      Text(ScanLimit - 2, kwRs),
      Text(ScanLimit - 1, kwRs),
      Text(ScanLimit, kwRs) }

TopicLists ==
    { << >>,
      <<kwAI>>,
      <<kwAI, kwGo>>,
      <<kwAI, kwGo, kwRs>>,
      <<kwAI, kwAI>>,
      << << >>, kwRs>> }

Ages == {-3, 0, 1, 24, 36, 200}

Garbage == [parses |-> FALSE, hour |-> 0, has_tz |-> FALSE, offset |-> 0]

PublishedStrings ==
    {Garbage}
    \cup {[parses |-> TRUE, hour |-> NowHour - a, has_tz |-> FALSE, offset |-> 0] :
            a \in Ages}
    \cup {[parses |-> TRUE, hour |-> NowHour - a, has_tz |-> TRUE, offset |-> o] :
            a \in Ages, o \in {0, 2}}

SourceWeights == {0, 500000, 1000000}

ScoreWordCounts == {k * (PenaltyWords \div 2) : k \in 0..MaxPenaltyStep}

ScoreArgs ==
    [now : {NowHour},
     published_at_iso : PublishedStrings,
     source_weight : SourceWeights,
     title : Titles,
     content_text : Contents,
     word_count : ScoreWordCounts,
     topics : TopicLists]

\* No digest run in progress
DigestIdle ==
    /\ pc = "idle"
    /\ opt_top = 0
    /\ top = 0
    /\ minutes = 0
    /\ ranked = << >>
    /\ items = << >>
    /\ chosen = << >>
    /\ remaining = 0
    /\ idx = 0
    /\ printed = << >>

InitScore ==
    /\ StoreIdle
    /\ DigestIdle
    /\ DbIdle
    /\ spc = "call"
    /\ args \in ScoreArgs
    /\ loc = << >>
    /\ res = << >>
    /\ clock = NowHour
    /\ calls = << >>

\* One call of score_post, from its arguments to its return
ScorePost ==
    /\ spc = "call"
    /\ loc' = Locals(args)
    /\ res' = ScoreResult(args, Locals(args))
    /\ spc' = "done"
    /\ calls' = Append(calls, [args |-> args,
                                res |-> ScoreResult(args, Locals(args)),
                                at |-> clock])
    /\ UNCHANGED <<args, clock, dvars, bvars, cvars>>

NextScore == ScorePost

SpecScore == InitScore /\ [][NextScore]_vars

(* _freshness on its own, over every whole-hour age up to MaxAgeHours and
   around the age at which exp underflows *)

MaxAgeHours == 240

FreshnessAges ==
    (0..MaxAgeHours) \cup {UnderflowHours - 1, UnderflowHours, UnderflowHours + 1}

InitFreshness ==
    /\ StoreIdle
    /\ DigestIdle
    /\ DbIdle
    /\ spc = "call"
    /\ args \in [age_hours : FreshnessAges]
    /\ loc = << >>
    /\ res = << >>
    /\ clock = NowHour
    /\ calls = << >>

\* One call of _freshness
FreshnessCall ==
    /\ spc = "call"
    /\ res' = [value |-> _freshness(args.age_hours)]
    /\ spc' = "done"
    /\ UNCHANGED <<args, loc, clock, calls, dvars, bvars, cvars>>

NextFreshness == FreshnessCall

SpecFreshness == InitFreshness /\ [][NextFreshness]_vars

(* Repeated calls of score_post while the wall clock advances *)

MaxCalls == 3
MaxTicks == 2

RepeatArgs ==
    [now : {NowHour, NowHour + 1},
     published_at_iso :
        {Garbage,
         [parses |-> TRUE, hour |-> NowHour - 24, has_tz |-> FALSE, offset |-> 0]},
     source_weight : {500000},
     title : {Text(0, << >>), Text(0, <<"A", "I">>)},
     content_text : {Text(0, <<"G", "o", " ", "a", "i">>)},
     word_count : {PenaltyWords \div 2},
     topics : {<<kwAI>>}]

InitCalls ==
    /\ StoreIdle
    /\ DigestIdle
    /\ DbIdle
    /\ spc = "call"
    /\ args \in RepeatArgs
    /\ loc = << >>
    /\ res = << >>
    /\ clock = NowHour
    /\ calls = << >>

\* The caller calls score_post again, with any arguments
CallAgain ==
    /\ spc = "done"
    /\ Len(calls) < MaxCalls
    /\ args' \in RepeatArgs
    /\ spc' = "call"
    /\ loc' = << >>
    /\ res' = << >>
    /\ UNCHANGED <<clock, calls, dvars, bvars, cvars>>

\* Time passes
ClockTick ==
    /\ clock < NowHour + MaxTicks
    /\ clock' = clock + 1
    /\ UNCHANGED <<spc, args, loc, res, calls, dvars, bvars, cvars>>

NextCalls == ScorePost \/ CallAgain \/ ClockTick

SpecCalls == InitCalls /\ [][NextCalls]_vars

----------------------------------------------------------------------------
(* The scores table, session blocks and the rank command *)

MaxPosts == 2

\* json.dumps(breakdown): the text a dict is stored as, and json.loads
JsonDumps(breakdown) == [json |-> breakdown]
JsonLoads(text) == text.json

\* The row upsert_score writes: float(score) and the dumped breakdown
ScoreRow(post_id, scored_at, score, breakdown) ==
    [post_id |-> post_id, scored_at |-> scored_at, score |-> score,
     breakdown_json |-> JsonDumps(breakdown)]

RowsOf(table, post_id) == {r \in table : r.post_id = post_id}

\* (a slip: a plain INSERT into a table without the primary key)
UpsertAppends(table, row) == table \cup {row}

\* INSERT ... ON CONFLICT(post_id) DO UPDATE SET scored_at, score,
\* breakdown_json = excluded: the row replaces the one of its post, if any
Upsert(table, row) == (table \ RowsOf(table, row.post_id)) \cup {row}

\* Rows of rank's posts query (rank --all): source weight 0, no text,
\* published 229 or 230 hours before NowHour (scores 0.001724 and 0.001679)
PostRows ==
    [now : {NowHour},
     published_at_iso :
        {[parses |-> TRUE, hour |-> NowHour - a, has_tz |-> FALSE, offset |-> 0] :
            a \in {229, 230}},
     source_weight : {0},
     title : {Text(0, << >>)},
     content_text : {Text(0, << >>)},
     word_count : {0},
     topics : {<< >>}]

PostTables == UNION {[1..n -> PostRows] : n \in 0..MaxPosts}

\* What callers outside rank pass to upsert_score
WriteValues ==
    {[scored_at |-> NowHour, score |-> 950000,
      breakdown |-> [relevance |-> 800000]],
     [scored_at |-> NowHour + 1, score |-> 980000,
      breakdown |-> [relevance |-> 950000]]}

InitDb ==
    /\ StoreIdle
    /\ DigestIdle
    /\ spc = "idle"
    /\ args = << >>
    /\ loc = << >>
    /\ res = << >>
    /\ clock = NowHour
    /\ calls = << >>
    /\ posts \in PostTables
    /\ scores = {}
    /\ conn = "none"
    /\ txn = {}
    /\ before = {}
    /\ last = [p \in 1..MaxPosts |-> {}]
    /\ nwrites = 0
    /\ outcome = "none"
    /\ cmd = "none"
    /\ ranked_out = << >>

\* with session(db) as conn: conn = connect(db), then the block starts
SessionEnter ==
    /\ conn # "open"
    /\ conn' = "open"
    /\ txn' = scores
    /\ before' = scores
    /\ last' = [p \in 1..MaxPosts |-> {}]
    /\ nwrites' = 0
    /\ outcome' = "none"
    /\ cmd' = "block"
    /\ ranked_out' = << >>
    /\ UNCHANGED <<posts, scores, dvars, svars, cvars>>

MaxWrites == 2

\* upsert_score(conn, post_id, scored_at, score, breakdown) inside a block
UpsertScore ==
    /\ conn = "open"
    /\ nwrites < MaxWrites
    /\ \E post_id \in 1..MaxPosts, w \in WriteValues :
          LET row == ScoreRow(post_id, w.scored_at, w.score, w.breakdown)
          IN  /\ txn' = Upsert(txn, row)
              /\ last' = [last EXCEPT ![post_id] = {w}]
    /\ nwrites' = nwrites + 1
    /\ UNCHANGED <<posts, scores, conn, before, outcome, cmd, ranked_out,
                   dvars, svars, cvars>>

\* The block ends without an exception: conn.commit(), then conn.close()
BlockReturns ==
    /\ conn = "open"
    /\ scores' = txn
    /\ conn' = "closed"
    /\ txn' = {}
    /\ outcome' = "returned"
    /\ UNCHANGED <<posts, before, last, nwrites, cmd, ranked_out, dvars, svars, cvars>>

\* (a slip: the commit sits in the finally clause)
BlockRaisesCommitting ==
    /\ conn = "open"
    /\ scores' = txn
    /\ conn' = "closed"
    /\ txn' = {}
    /\ outcome' = "raised"
    /\ UNCHANGED <<posts, before, last, nwrites, cmd, ranked_out, dvars, svars, cvars>>

\* The block raises: commit is skipped, finally: conn.close() discards the
\* open transaction
BlockRaises ==
    /\ conn = "open"
    /\ conn' = "closed"
    /\ txn' = {}
    /\ outcome' = "raised"
    /\ UNCHANGED <<posts, scores, before, last, nwrites, cmd, ranked_out,
                   dvars, svars, cvars>>

\* score_post's arguments for a row of rank's query: now = _now()
RankArgs(post) == [post EXCEPT !.now = clock]

\* (a slip: the rounded breakdown value is what gets stored)
StoredScoreRounded(result) == result.breakdown.final

\* upsert_score(conn, int(r["id"]), scored_at, res.score, res.breakdown)
StoredScore(result) == result.score

\* rank's loop over the first n rows: score each, upsert its row
RECURSIVE ScoreAll(_, _, _, _)
ScoreAll(table, rows, n, scored_at) ==
    IF n = 0 THEN table
    ELSE LET result == ScoreResult(RankArgs(rows[n]), Locals(RankArgs(rows[n])))
         IN  Upsert(ScoreAll(table, rows, n - 1, scored_at),
                    ScoreRow(n, scored_at, StoredScore(result), result.breakdown))

\* ... FROM posts p JOIN scores sc ON p.id = sc.post_id
Joined(table, rows) == {r \in table : r.post_id \in 1..Len(rows)}

\* ORDER BY sc.score DESC: every order of the rows in which no row precedes
\* one of a higher score (SQL leaves the order of equal scores open)
OrderByScoreDesc(rows) ==
    {s \in [1..Cardinality(rows) -> rows] :
        /\ \A i, j \in 1..Cardinality(rows) : i # j => s[i] # s[j]
        /\ \A i, j \in 1..Cardinality(rows) : i < j => s[i].score >= s[j].score}

\* The rank command: one session block that scores every post of the
\* window, stores the scores and prints the top rows; without posts it
\* leaves the block by typer.Exit before any write
Rank ==
    /\ conn # "open"
    /\ before' = scores
    /\ last' = [p \in 1..MaxPosts |-> {}]
    /\ nwrites' = 0
    /\ conn' = "closed"
    /\ txn' = {}
    /\ cmd' = "rank"
    /\ IF posts = << >>
       THEN /\ outcome' = "raised"
            /\ ranked_out' = << >>
            /\ UNCHANGED scores
       ELSE /\ outcome' = "returned"
            /\ scores' = ScoreAll(scores, posts, Len(posts), clock)
            /\ \E opt \in 0..MaxTop :
                 \E s \in OrderByScoreDesc(Joined(scores', posts)) :
                    ranked_out' = Take(s, Max(1, opt))
    /\ UNCHANGED <<posts, dvars, svars, cvars>>

NextDb == SessionEnter \/ UpsertScore \/ BlockReturns \/ BlockRaises \/ Rank

SpecDb == InitDb /\ [][NextDb]_vars

----------------------------------------------------------------------------
(* Properties of score_post *)

Returned == spc = "done"

C8_TopicScoreSaturates ==
    Returned =>
        LET h == loc.topic_hits
            ts == loc.topic_score
        IN  /\ h >= 0
            /\ ts = CASE h = 0 -> 0
                      [] h = 1 -> 150000
                      [] h = 2 -> 300000
                      [] h = 3 -> 450000
                      [] OTHER -> 600000
            /\ h \in 1..4 => TopicScore(h - 1) < ts
            /\ h >= 4 => TopicScore(h + 1) = ts
            /\ res.breakdown.topic_hits = h
            /\ res.breakdown.topic_score = ts

\* more than 4 hits
C8_Witness ==
    /\ Returned
    /\ loc.topic_hits = 6
    /\ loc.topic_score = 600000

PublishedNow(a) ==
    [a EXCEPT !.published_at_iso =
        [parses |-> TRUE, hour |-> a.now, has_tz |-> FALSE, offset |-> 0]]

\* C10: when published_at_iso does not parse, score_post does not raise; the
\* age is 0 and the freshness 1.0, and the result is the one of the same
\* post published exactly at `now`.
C10_UnparsableDateIsNow ==
    (Returned /\ ~args.published_at_iso.parses) =>
        /\ ~res.raised
        /\ loc.published_dt = args.now
        /\ loc.age_hours = 0
        /\ loc.freshness = One
        /\ res.breakdown.freshness = One
        /\ res = ScoreResult(PublishedNow(args), Locals(PublishedNow(args)))

C10_Witness ==
    /\ Returned
    /\ ~args.published_at_iso.parses
    /\ loc.topic_hits > 0
    /\ loc.length_penalty > 0

\* Whether the publish time parses to an instant later than `now`
FutureDated(a) ==
    /\ a.published_at_iso.parses
    /\ ParseDatetimeIso(a.published_at_iso).dt > a.now

\* C11: age_hours is never negative; a post published later than `now` has
\* age 0 and freshness 1.0, and its score and breakdown are those of the same
\* post published exactly at `now`, so it never outranks that post.
C11_FutureDatedIsNow ==
    Returned =>
        /\ loc.age_hours >= 0
        /\ FutureDated(args) =>
              /\ loc.age_hours = 0
              /\ loc.freshness = One
              /\ res.score <= Locals(PublishedNow(args)).score
              /\ res = ScoreResult(PublishedNow(args), Locals(PublishedNow(args)))

\* a post dated three hours ahead, with topic hits and a length penalty
C11_Witness ==
    /\ Returned
    /\ FutureDated(args)
    /\ loc.published_dt = args.now + 3
    /\ loc.topic_hits > 0
    /\ loc.length_penalty > 0

\* The two fields score_post scans: the title and the content excerpt
ScannedField(a, f) ==
    IF f = "title" THEN a.title ELSE Slice(a.content_text, ScanLimit)

\* The keyword occurs in the field when letter case is ignored, at an offset
\* that leaves at most Len(kw) filler characters before it
OccursFolded(kw, field) ==
    \E o \in Max(0, field.pad - Len(kw))..(TextLen(field) - Len(kw)) :
        \A k \in 1..Len(kw) : LowerChar(CharAt(field, o + k)) = LowerChar(kw[k])

\* The (field, keyword-list entry) pairs that hit
HitPairs(a) ==
    {p \in {"title", "content"} \X (1..Len(a.topics)) :
        /\ a.topics[p[2]] # << >>
        /\ OccursFolded(a.topics[p[2]], ScannedField(a, p[1]))}

\* C12: topic_hits is the number of (field, keyword entry) pairs, field in
\* {title, content excerpt}, whose non-empty keyword occurs in the field
\* ignoring case; so 0 <= topic_hits <= 2 * len(topics), an empty field
\* contributes nothing, and an empty topics list gives 0 hits and score 0.
C12_TopicHitsArePairs ==
    Returned =>
        /\ loc.topic_hits = Cardinality(HitPairs(args))
        /\ loc.topic_hits >= 0
        /\ loc.topic_hits <= 2 * Len(args.topics)
        /\ (TextLen(args.title) = 0 /\ TextLen(args.content_text) = 0)
              => loc.topic_hits = 0
        /\ TextLen(args.title) = 0
              => \A p \in HitPairs(args) : p[1] = "content"
        /\ args.topics = << >> => (loc.topic_hits = 0 /\ loc.topic_score = 0)

\* "AI" twice in the title and once in the content, the keyword listed
\* twice: each list entry counts once per field
C12_Witness ==
    /\ Returned
    /\ args.title = Text(0, <<"a", "i", "a", "i">>)
    /\ args.content_text = Text(0, <<"A", "I", " ", "G", "O", " ", "R", "S">>)
    /\ args.topics = <<kwAI, kwAI>>
    /\ loc.topic_hits = 4

\* The keyword has an occurrence in the whole text, ignoring case, that ends
\* at or before the character offset `limit`
OccursBy(kw, t, limit) ==
    \E o \in {0} \cup (Max(0, t.pad - Len(kw))..(TextLen(t) - Len(kw))) :
        /\ o + Len(kw) <= limit
        /\ o + Len(kw) <= TextLen(t)
        /\ \A k \in 1..Len(kw) : LowerChar(CharAt(t, o + k)) = LowerChar(kw[k])

TitleEntries(a) ==
    {k \in 1..Len(a.topics) :
        a.topics[k] # << >> /\ OccursFolded(a.topics[k], a.title)}

ContentEntriesBy(a, limit) ==
    {k \in 1..Len(a.topics) :
        a.topics[k] # << >> /\ OccursBy(a.topics[k], a.content_text, limit)}

\* C13: only the first 2000 characters of content_text are scanned: a keyword
\* contributes a content hit exactly when one of its occurrences ends at or
\* before offset 2000, so a keyword absent from the title whose occurrences
\* all end after offset 2000 adds nothing; word_count and the length penalty
\* are taken from the word_count argument, whatever the length of the text.
C13_OnlyExcerptScanned ==
    Returned =>
        /\ loc.topic_hits =
              Cardinality(TitleEntries(args))
                + Cardinality(ContentEntriesBy(args, ScanLimit))
        /\ (TitleEntries(args) = {} /\ ContentEntriesBy(args, ScanLimit) = {})
              => loc.topic_hits = 0
        /\ res.breakdown.word_count = args.word_count
        /\ loc.length_penalty * PenaltyWords
              = 300000 * Min(args.word_count, PenaltyWords)

\* "rs" straddles offset 2000 of a 2001-character text of 5000 words: the
\* keyword is in the text and not in the excerpt
C13_Witness ==
    /\ Returned
    /\ args.content_text = Text(ScanLimit - 1, kwRs)
    /\ args.title = Text(0, << >>)
    /\ args.topics = << << >>, kwRs>>
    /\ ContentEntriesBy(args, ScanLimit + 1) = {2}
    /\ loc.topic_hits = 0
    /\ args.word_count = 5000
    /\ loc.length_penalty = 300000

\* C14: for source_weight in [0, 1] and word_count >= 0 the final score
\* returned by score_post lies between 0.0 and 1.0 (the range the docstrings
\* of ScoreResult and score_post give).
C14_ScoreInUnitRange ==
    (/\ Returned
     /\ args.source_weight >= 0
     /\ args.source_weight <= One
     /\ args.word_count >= 0)
        => (res.score >= 0 /\ res.score <= One)

\* The arguments with title and content replaced
WithTexts(a, t, c) == [a EXCEPT !.title = t, !.content_text = c]

\* The single keyword of the topics list matches the title and not the
\* excerpt / the excerpt and not the title
OnlyInTitle(a) ==
    /\ Len(a.topics) = 1
    /\ TitleEntries(a) = {1}
    /\ ContentEntriesBy(a, ScanLimit) = {}
OnlyInContent(a) ==
    /\ Len(a.topics) = 1
    /\ TitleEntries(a) = {}
    /\ ContentEntriesBy(a, ScanLimit) = {1}

\* C15: topic hits in the title count more than in the content (the Note of
\* the score_post docstring): all other arguments equal, a keyword matching
\* only in the title scores strictly higher than the same keyword matching
\* only in the content.
C15_TitleHitsCountMore ==
    (Returned /\ OnlyInTitle(args)) =>
        \A t \in Titles, c \in Contents :
            OnlyInContent(WithTexts(args, t, c))
                => res.score > Locals(WithTexts(args, t, c)).score

ExpAnchors == <<[h |-> 1, v |-> 972604], [h |-> 36, v |-> 367879],
                [h |-> 72, v |-> 135335], [h |-> 100, v |-> 62177],
                [h |-> 200, v |-> 3866], [h |-> 240, v |-> 1273]>>

----------------------------------------------------------------------------
(* Properties of the scores table, session and rank *)

\* The unrounded score score_post computes for a post at rank's `now`
TrueScore(post_id) == Locals(RankArgs(posts[post_id])).score

\* C17: the rounded breakdown values are presentation-only: rank stores the
\* unrounded score returned by score_post, breakdown["final"] is that value
\* rounded to 4 places, and ORDER BY uses the stored unrounded value, so two
\* posts whose scores differ by less than 0.0001 are ordered by true score.
C17_RankUsesUnroundedScore ==
    (cmd = "rank" /\ outcome = "returned") =>
        /\ \A p \in 1..Len(posts) :
              /\ RowsOf(scores, p) # {}
              /\ \A r \in RowsOf(scores, p) :
                    /\ r.score = TrueScore(p)
                    /\ JsonLoads(r.breakdown_json).final = RoundTo(TrueScore(p), 100)
        /\ \A i, j \in 1..Len(ranked_out) :
              i < j => TrueScore(ranked_out[i].post_id)
                          >= TrueScore(ranked_out[j].post_id)
        /\ \A i \in 1..Len(ranked_out) :
              \A p \in 1..Len(posts) :
                  TrueScore(p) > TrueScore(ranked_out[i].post_id)
                      => \E k \in 1..(i - 1) : ranked_out[k].post_id = p

\* two posts with the same breakdown["final"] and scores less than 0.0001
\* apart: the later row has the higher score and is printed first
C17_Witness ==
    /\ cmd = "rank"
    /\ outcome = "returned"
    /\ Len(ranked_out) = 2
    /\ ranked_out[1].post_id = 2
    /\ JsonLoads(ranked_out[1].breakdown_json).final
          = JsonLoads(ranked_out[2].breakdown_json).final
    /\ ranked_out[1].score > ranked_out[2].score
    /\ ranked_out[1].score - ranked_out[2].score < 100

\* The row an upsert_score call with these values leaves for the post
RowWritten(post_id, w) ==
    [post_id |-> post_id, scored_at |-> w.scored_at, score |-> w.score,
     breakdown_json |-> [json |-> w.breakdown]]

\* C19: after any sequence of upsert_score calls the scores table has at most
\* one row per post_id; the row of a post holds the scored_at, score and
\* breakdown of the latest call for that post, and the row of a post no call
\* named is the one it had before.
C19_OneRowLastWriteWins ==
    /\ \A p \in 1..MaxPosts :
          /\ Cardinality(RowsOf(scores, p)) <= 1
          /\ Cardinality(RowsOf(txn, p)) <= 1
    /\ conn = "open" =>
          \A p \in 1..MaxPosts :
              /\ \A w \in last[p] : RowsOf(txn, p) = {RowWritten(p, w)}
              /\ last[p] = {} => RowsOf(txn, p) = RowsOf(before, p)

\* post 1 had a row with score 0.95 and now has the one with 0.98; post 2
\* was not named and keeps its row
C19_Witness ==
    /\ conn = "open"
    /\ nwrites > 0
    /\ \E r \in RowsOf(before, 1) : r.score = 950000
    /\ \E r \in RowsOf(txn, 1) : r.score = 980000 /\ r.scored_at = NowHour + 1
    /\ last[2] = {}
    /\ RowsOf(txn, 2) # {}
    /\ RowsOf(txn, 2) = RowsOf(before, 2)

\* C20: a session block is all-or-nothing: while it runs the database file is
\* unchanged; when it ends without an exception every write of the block is
\* committed; when it raises none is, whatever it wrote; and the connection
\* is closed in both cases.
C20_SessionAllOrNothing ==
    /\ conn = "open" => scores = before
    /\ outcome # "none" => conn = "closed"
    /\ outcome = "raised" => scores = before
    /\ (outcome = "returned" /\ cmd = "block") =>
          \A p \in 1..MaxPosts :
              /\ \A w \in last[p] : RowsOf(scores, p) = {RowWritten(p, w)}
              /\ last[p] = {} => RowsOf(scores, p) = RowsOf(before, p)

\* a block that wrote a new row for post 1 and then raised
C20_Witness ==
    /\ outcome = "raised"
    /\ cmd = "block"
    /\ conn = "closed"
    /\ nwrites > 0
    /\ \E w \in last[1] : RowWritten(1, w) \notin scores
    /\ scores # {}

----------------------------------------------------------------------------
(* Further properties of digest *)

\* C23: the budgeter considers at most 3 * max_items candidates, the first
\* 3 * max_items rows of the score-descending query: a row beyond them is
\* never a candidate and never selected, whatever its efficiency and however
\* much budget remains.
C23_CandidateLimit ==
    pc \in {"queried", "loop", "done"} =>
        /\ Len(items) <= CandidateFactor * max_items
        /\ \A i \in 1..Len(items) : items[i].id <= CandidateFactor * max_items
        /\ \A i \in 1..Len(chosen) : chosen[i].id <= CandidateFactor * max_items
        /\ pc = "queried" => items = Take(ranked, CandidateFactor * max_items)

\* the pass ended empty-handed with budget left, while the fourth row, a
\* post of no words costing one minute, would have fitted
C23_Witness ==
    /\ pc = "done" /\ Budgeted
    /\ Len(ranked) > CandidateFactor * max_items
    /\ items = << >>
    /\ remaining >= 1
    /\ ranked[CandidateFactor * max_items + 1].word_count = 0

\* The candidates the finished pass did not select
Unselected ==
    {k \in 1..Len(Candidates) :
        \A i \in 1..Len(items) : items[i].id # Candidates[k].id}

\* C27: when the budgeted pass ends with fewer than max_items items, every
\* unselected candidate costs strictly more minutes than the budget that
\* remains; and if any candidate fits the initial budget, the selection is
\* not empty.
C27_GreedyMaximal ==
    (pc = "done" /\ Budgeted) =>
        /\ Len(items) < max_items =>
              \A k \in Unselected : Candidates[k].mins > remaining
        /\ (\E k \in 1..Len(Candidates) : Candidates[k].mins <= minutes)
              => items # << >>

\* budget is left over, fewer than max_items items were selected and a
\* candidate too long for the rest stays out
C27_Witness ==
    /\ pc = "done" /\ Budgeted
    /\ items # << >>
    /\ Len(items) < max_items
    /\ remaining > 0
    /\ Unselected # {}

\* C28: the efficiency re-sort is stable: candidates of equal
\* score / estimated_minutes are examined in their input (score-descending)
\* order, so of two such candidates the higher-scored one comes first.
C28_StableResort ==
    (pc = "loop" /\ Budgeted) =>
        \A i \in 1..Len(items) : \A j \in 1..Len(items) :
            (/\ i < j
             /\ ~RatioLess(items[i].ratio, items[j].ratio)
             /\ ~RatioLess(items[j].ratio, items[i].ratio))
                => /\ items[i].id < items[j].id
                   /\ items[i].score >= items[j].score

\* 1.0 for two minutes and 0.5 for one minute: equal efficiency, the
\* higher-scored candidate first, behind a candidate the sort moved forward
C28_Witness ==
    /\ pc = "loop" /\ Budgeted
    /\ Len(items) = 3
    /\ items[1].id = 2
    /\ items[2].ratio.num * items[3].ratio.den
          = items[3].ratio.num * items[2].ratio.den
    /\ items[2].score > items[3].score
    /\ items[2].mins > items[3].mins

\* C30: at word counts 220 * k + 110 the estimate is the even one of the two
\* nearest minutes (330 -> 2, 550 -> 2, 770 -> 4, 990 -> 4), 110 words cost
\* the one-minute floor, and the minutes print_digest shows are the
\* budgeter's estimate for every word count.
C30_HalfMinutesToEven ==
    /\ (pc = "loop" /\ Budgeted) =>
          \A i \in 1..Len(items) :
              LET wc == items[i].word_count
                  m == items[i].mins
              IN  /\ wc = 110 => m = 1
                  /\ wc = 330 => m = 2
                  /\ wc = 550 => m = 2
                  /\ wc = 770 => m = 4
                  /\ wc = 990 => m = 4
                  /\ (wc > WordsPerMinute /\ wc % WordsPerMinute = 110) =>
                        /\ m % 2 = 0
                        /\ m \in {wc \div WordsPerMinute,
                                  wc \div WordsPerMinute + 1}
    /\ pc = "printed" =>
          /\ Len(printed) = Len(items)
          /\ \A i \in 1..Len(printed) :
                /\ printed[i].id = items[i].id
                /\ Budgeted => printed[i].mins = items[i].mins
                /\ items[i].word_count = 550 => printed[i].mins = 2
                /\ items[i].word_count = 110 => printed[i].mins = 1

\* 990 words selected under a budget and printed as 4 minutes
C30_Witness ==
    /\ pc = "printed" /\ Budgeted
    /\ Len(printed) = 1
    /\ items[1].word_count = 990
    /\ items[1].mins = 4
    /\ printed[1].mins = 4

----------------------------------------------------------------------------
(* Further properties of score_post *)

\* The score of a call
ScoreOf(a) == Locals(a).score

IsPrefix(s, t) == Len(s) <= Len(t) /\ SubSeq(t, 1, Len(s)) = s

\* C29: all other arguments fixed, the score does not decrease when
\* source_weight grows or keywords are added to topics, and does not
\* increase when word_count (>= 0) or the age of the post grows.
C29_Monotone ==
    Returned =>
        /\ \A sw \in SourceWeights :
              sw >= args.source_weight =>
                  ScoreOf([args EXCEPT !.source_weight = sw]) >= res.score
        /\ \A t \in TopicLists :
              IsPrefix(args.topics, t) =>
                  /\ TopicHits([args EXCEPT !.topics = t]) >= loc.topic_hits
                  /\ ScoreOf([args EXCEPT !.topics = t]) >= res.score
        /\ \A wc \in ScoreWordCounts :
              (args.word_count >= 0 /\ wc >= args.word_count) =>
                  ScoreOf([args EXCEPT !.word_count = wc]) <= res.score
        /\ \A p \in PublishedStrings :
              AgeHours([args EXCEPT !.published_at_iso = p]) >= loc.age_hours
                  => ScoreOf([args EXCEPT !.published_at_iso = p]) <= res.score

\* a call every signal of which can still move the score: a heavier
\* source and one more keyword raise it, more words and more age lower it
C29_Witness ==
    /\ Returned
    /\ ScoreOf([args EXCEPT !.source_weight = One]) > res.score
    /\ ScoreOf([args EXCEPT !.topics = <<kwAI, kwGo>>]) > res.score
    /\ args.topics = <<kwAI>>
    /\ ScoreOf([args EXCEPT !.word_count = PenaltyWords]) < res.score
    /\ loc.age_hours = 24
    /\ ScoreOf([args EXCEPT !.published_at_iso =
            [parses |-> TRUE, hour |-> NowHour - 36, has_tz |-> FALSE,
             offset |-> 0]]) < res.score

----------------------------------------------------------------------------
(* The commands on the database: fetch *)

\* The urls of feed entries; "" is an entry without a link
Urls == {"u1", "u2"}

\* The enabled rows of the sources table, by id
SourceIds == {1, 2}

\* What fetch_html and extract_text give for a url: the length of the text
\* in characters and its word count (a failed download gives the first)
Pages ==
    {[chars |-> 0, words |-> 0],
     [chars |-> 150, words |-> 25],
     [chars |-> 3000, words |-> 440]}

\* What parse_feed returns for a source: a list of entries
Feeds ==
    {<< >>, <<"u1">>, <<"u2">>, <<"u1", "u2">>, <<"", "u2">>, <<"u2", "u2">>}

\* stable_hash(text): a digest that tells the texts of the model apart
StableHash(chars) ==
    CASE chars = 0 -> "sha-of-empty"
      [] chars = 150 -> "sha-of-150"
      [] OTHER -> "sha-of-3000"

\* stable_hash(content_text) if content_text else ""
ContentHash(page) == IF page.chars = 0 THEN "" ELSE StableHash(page.chars)

\* The published time a feed entry carries, by url (hours)
Published(url) == IF url = "u1" THEN NowHour - 1 ELSE NowHour - 2

HasUrl(table, url) == \E i \in 1..Len(table) : table[i].url = url

\* The row fetch inserts
PostRow(source_id, url, page) ==
    [source_id |-> source_id, url |-> url, published_at |-> Published(url),
     chars |-> page.chars, content_hash |-> ContentHash(page),
     word_count |-> page.words, read_state |-> "unread"]

\* (a slip: no lookup of the url before the INSERT)
FetchEntryNoLookup(table, source_id, url, pages, min_word_count) ==
    IF url = "" THEN table
    ELSE IF pages[url].words < min_word_count THEN table
    ELSE Append(table, PostRow(source_id, url, pages[url]))

\* One entry of a feed: skipped without a url, when a post of that url is
\* stored already, or below the minimum word count; inserted otherwise
FetchEntry(table, source_id, url, pages, min_word_count) ==
    IF url = "" THEN table
    ELSE IF HasUrl(table, url) THEN table
    ELSE IF pages[url].words < min_word_count THEN table
    ELSE Append(table, PostRow(source_id, url, pages[url]))

\* for e in entries: the first n entries of a source's feed
RECURSIVE FetchEntries(_, _, _, _, _, _)
FetchEntries(table, source_id, entries, n, pages, min_word_count) ==
    IF n = 0 THEN table
    ELSE FetchEntry(FetchEntries(table, source_id, entries, n - 1, pages,
                                 min_word_count),
                    source_id, entries[n], pages, min_word_count)

\* entries = parse_feed(url)[: max(1, int(limit_per_source))]
Limited(entries, limit_per_source) == Take(entries, Max(1, limit_per_source))

\* for s in sources (ORDER BY id): the enabled sources up to id n
RECURSIVE FetchSources(_, _, _, _, _, _, _)
FetchSources(table, enabled, n, feed, limit_per_source, pages, min_word_count) ==
    IF n = 0 THEN table
    ELSE LET done == FetchSources(table, enabled, n - 1, feed,
                                  limit_per_source, pages, min_word_count)
             entries == Limited(feed[n], limit_per_source)
         IN  IF n \in enabled
             THEN FetchEntries(done, n, entries, Len(entries), pages,
                               min_word_count)
             ELSE done

\* What a command leaves behind for the caller
Ran(name, exit_code, out, llm_calls, note) ==
    [name |-> name, exit_code |-> exit_code, out |-> out,
     llm_calls |-> llm_calls, note |-> note]

\* No command is in the middle of its run
CommandIdle == pc \in {"idle", "printed"}

\* A command other than digest starts: the variables of the last digest
\* run went with its process
NoDigest ==
    /\ pc' = "idle"
    /\ opt_top' = 0
    /\ top' = 0
    /\ minutes' = 0
    /\ ranked' = << >>
    /\ items' = << >>
    /\ chosen' = << >>
    /\ remaining' = 0
    /\ idx' = 0
    /\ printed' = << >>

\* A url that the feeds of two enabled sources carry in this run
InTwoFeeds(url, enabled, feed, limit_per_source) ==
    \E a, b \in enabled :
        /\ a # b
        /\ \E i \in 1..Len(Limited(feed[a], limit_per_source)) :
              Limited(feed[a], limit_per_source)[i] = url
        /\ \E i \in 1..Len(Limited(feed[b], limit_per_source)) :
              Limited(feed[b], limit_per_source)[i] = url

\* The fetch command: exit code 1 without an enabled source; otherwise
\* every entry of every enabled source is looked at, and the block commits
Fetch ==
    /\ CommandIdle
    /\ \E enabled \in SUBSET SourceIds, feed \in [SourceIds -> Feeds],
          limit_per_source \in {0, 2}, pages \in [Urls -> Pages],
          min_word_count \in {0, 200} :
          IF enabled = {}
          THEN /\ ptable' = ptable
               /\ ran' = Ran("fetch", 1, 0, 0, {})
          ELSE /\ ptable' = FetchSources(ptable, enabled, 2, feed,
                                         limit_per_source, pages, min_word_count)
               /\ ran' = Ran("fetch", 0, Len(ptable') - Len(ptable), 0,
                             {u \in Urls :
                                 /\ ~HasUrl(ptable, u)
                                 /\ HasUrl(ptable', u)
                                 /\ InTwoFeeds(u, enabled, feed, limit_per_source)})
    /\ NoDigest
    /\ UNCHANGED <<summaries, llm_model, svars, bvars>>

InitFetch ==
    /\ DigestIdle
    /\ ScoreIdle
    /\ DbIdle
    /\ ptable = << >>
    /\ summaries = {}
    /\ llm_model = "m1"
    /\ ran = Ran("none", 0, 0, 0, {})

NextFetch == Fetch

SpecFetch == InitFetch /\ [][NextFetch]_vars

----------------------------------------------------------------------------
(* Properties of fetch *)

NoSharedUrl ==
    \A i, j \in 1..Len(ptable) : ptable[i].url = ptable[j].url => i = j

\* Every post stored before the step is stored unchanged after it, and
\* every post the step added is unread
FetchFrame ==
    /\ Len(ptable') >= Len(ptable)
    /\ \A i \in 1..Len(ptable) : ptable'[i] = ptable[i]
    /\ \A i \in (Len(ptable) + 1)..Len(ptable') :
          /\ ptable'[i].read_state = "unread"
          /\ ~HasUrl(ptable, ptable'[i].url)

\* C25: fetch inserts a post only if no post of its url is stored and never
\* modifies a stored post: after any sequence of fetch runs no two posts
\* share a url, also when the feeds of two sources carry the same url in
\* one run, and every post fetch inserted is unread.
C25_FetchInsertsOnce == []NoSharedUrl /\ [][FetchFrame]_vars

\* A run in which the feeds of two sources carried a url that was new: it
\* is stored once
C25_Witness ==
    /\ ran.name = "fetch"
    /\ ran.note # {}
    /\ \A u \in ran.note :
          Cardinality({i \in 1..Len(ptable) : ptable[i].url = u}) = 1

----------------------------------------------------------------------------
(* The commands on the database: mark, rank and digest *)

\* Tables that fetch runs leave: no post, or a post of each of two sources
\* (a long text, and a page whose download failed)
StoredPages == [u \in Urls |->
    IF u = "u1" THEN [chars |-> 3000, words |-> 440]
    ELSE [chars |-> 0, words |-> 0]]

StoredTables ==
    {<< >>,
     FetchSources(<< >>, SourceIds, 2,
                  [n \in SourceIds |-> IF n = 1 THEN <<"u1">> ELSE <<"u2">>],
                  2, StoredPages, 0)}

ReadStates == {"read", "saved", "skip", "unread"}

\* The flags a mark call is given
FlagSets ==
    {{}, {"read"}, {"saved"}, {"skip"}, {"unread"}, {"read", "saved"},
     ReadStates}

\* The post ids a command is given
PostIds == 1..Cardinality(Urls)

\* (a slip: the first flag given wins when several are)
MarkSelectsFirst(flags) == flags # {}

\* if len(selected) != 1: ... raise typer.Exit(code=1)
MarkSelectsOne(flags) == Cardinality(flags) = 1

\* The mark command
Mark ==
    /\ CommandIdle
    /\ \E post_id \in PostIds, flags \in FlagSets :
          IF ~MarkSelectsOne(flags)
          THEN /\ ptable' = ptable
               /\ ran' = Ran("mark", 1, << >>, 0,
                             [post_id |-> post_id, flags |-> flags])
          ELSE LET state == CHOOSE f \in flags : TRUE
               IN  IF post_id \in 1..Len(ptable)
                   THEN /\ ptable' = [ptable EXCEPT ![post_id].read_state = state]
                        /\ ran' = Ran("mark", 0, << >>, 0,
                                      [post_id |-> post_id, flags |-> flags])
                   ELSE /\ ptable' = ptable
                        /\ ran' = Ran("mark", 1, << >>, 0,
                                      [post_id |-> post_id, flags |-> flags])
    /\ NoDigest
    /\ UNCHANGED <<summaries, llm_model, svars, bvars>>

\* The --source option: no filter, or the posts of source 1
SourceFilters == {{}, {1}}

\* (a slip: the read-state condition is left out of the WHERE clause)
MatchesIgnoringReadState(post, include_read, source) ==
    source = {} \/ post.source_id \in source

\* _build_source_filters with --all and no --tag:
\* p.read_state != 'read' unless include_read, s.id IN (...) with --source
Matches(post, include_read, source) ==
    /\ include_read \/ post.read_state # "read"
    /\ source = {} \/ post.source_id \in source

\* sources.weight of the two sources
SourceWeight(source_id) == IF source_id = 1 THEN One ELSE One \div 2

\* score_post's arguments for a row of the posts query
StoreArgs(post, now) ==
    [now |-> now,
     published_at_iso |->
        [parses |-> TRUE, hour |-> post.published_at, has_tz |-> FALSE,
         offset |-> 0],
     source_weight |-> SourceWeight(post.source_id),
     title |-> Text(0, << >>),
     content_text |-> Text(post.chars, << >>),
     word_count |-> post.word_count,
     topics |-> << >>]

\* The row a command stores for a post: score_post at `now`, scored_at
StoreScoreRow(post_id, now) ==
    LET a == StoreArgs(ptable[post_id], now)
        result == ScoreResult(a, Locals(a))
    IN  ScoreRow(post_id, now, StoredScore(result), result.breakdown)

\* (a slip: digest scores every matching post again)
HasScoreRowNever(table, post_id) == FALSE

\* if q1(conn, "SELECT score FROM scores WHERE post_id=?", ...): continue
HasScoreRow(table, post_id) == RowsOf(table, post_id) # {}

\* The scoring loops of digest (only_missing) and rank over the matching
\* posts among the first n
RECURSIVE ScorePosts(_, _, _, _, _, _)
ScorePosts(table, n, include_read, source, only_missing, now) ==
    IF n = 0 THEN table
    ELSE LET done == ScorePosts(table, n - 1, include_read, source,
                                only_missing, now)
         IN  IF ~Matches(ptable[n], include_read, source) THEN done
             ELSE IF only_missing /\ HasScoreRow(done, n) THEN done
             ELSE Upsert(done, StoreScoreRow(n, now))

\* FROM posts p JOIN scores sc ON p.id=sc.post_id JOIN sources s ... WHERE
RankedRows(table, include_read, source) ==
    {[id |-> r.post_id, score |-> r.score,
      word_count |-> ptable[r.post_id].word_count] :
        r \in {x \in table : /\ x.post_id \in 1..Len(ptable)
                             /\ Matches(ptable[x.post_id], include_read, source)}}

MatchingIds(include_read, source) ==
    {i \in 1..Len(ptable) : Matches(ptable[i], include_read, source)}

\* The rank command (--all): leaves by typer.Exit(0) without a matching
\* post; otherwise scores every matching post and prints the top rows
RankCommand ==
    /\ CommandIdle
    /\ \E include_read \in BOOLEAN, source \in SourceFilters, opt \in {0, MaxTop} :
          IF MatchingIds(include_read, source) = {}
          THEN /\ scores' = scores
               /\ ran' = Ran("rank", 0, << >>, 0,
                             [include_read |-> include_read, source |-> source])
          ELSE /\ scores' = ScorePosts(scores, Len(ptable), include_read,
                                       source, FALSE, clock)
               /\ \E s \in OrderByScoreDesc(RankedRows(scores', include_read, source)) :
                     ran' = Ran("rank", 0,
                                [i \in 1..Min(Max(1, opt), Len(s)) |-> s[i].id], 0,
                                [include_read |-> include_read, source |-> source])
    /\ NoDigest
    /\ UNCHANGED <<ptable, summaries, llm_model, svars, posts, conn, txn,
                   before, last, nwrites, outcome, cmd, ranked_out>>

\* The digest command up to its ranked query (--all): scores the matching
\* posts that have no score row; the query's rows in score order
DigestStart ==
    /\ CommandIdle
    /\ \E source \in SourceFilters :
          /\ scores' = ScorePosts(scores, Len(ptable), FALSE, source, TRUE, clock)
          /\ ranked' \in OrderByScoreDesc(RankedRows(scores', FALSE, source))
          /\ ran' = Ran("digest", 0, "budgeting", 0,
                        [include_read |-> FALSE, source |-> source])
    /\ opt_top' \in {0, MaxTop}
    /\ top' = opt_top'
    /\ minutes' \in {0, 1}
    /\ pc' = "start"
    /\ items' = << >>
    /\ chosen' = << >>
    /\ remaining' = 0
    /\ idx' = 0
    /\ printed' = << >>
    /\ UNCHANGED <<ptable, summaries, llm_model, svars, posts, conn, txn,
                   before, last, nwrites, outcome, cmd, ranked_out>>

\* The key of a summaries row
SummaryKey(r) ==
    [post_id |-> r.post_id, mode |-> r.mode, model |-> r.model,
     content_hash |-> r.content_hash]

SummaryRow(post_id, mode, model, content_hash, summary_text) ==
    [post_id |-> post_id, mode |-> mode, model |-> model,
     content_hash |-> content_hash, summary_text |-> summary_text]

\* SELECT summary_text FROM summaries WHERE post_id=? AND mode=? AND
\* model=? AND content_hash=?
Existing(table, key) == {r \in table : SummaryKey(r) = key}

\* (a slip: a plain INSERT that keeps the old row beside the new one)
UpsertSummaryAppends(table, row) == table \cup {row}

\* INSERT OR REPLACE INTO summaries
UpsertSummary(table, row) ==
    (table \ Existing(table, SummaryKey(row))) \cup {row}

\* ch = content_hash or stable_hash(content)
HashOf(post) ==
    IF post.content_hash # "" THEN post.content_hash ELSE StableHash(post.chars)

\* digest's loop over the first n items: a post with text and no "short"
\* summary gets one LLM call, whose reply is stored unless the call raised
RECURSIVE AutoSummarize(_, _, _)
AutoSummarize(table, n, reply) ==
    IF n = 0 THEN table
    ELSE LET done == AutoSummarize(table, n - 1, reply)
             post == ptable[items[n].id]
             key == [post_id |-> items[n].id, mode |-> "short",
                     model |-> llm_model, content_hash |-> HashOf(post)]
         IN  IF post.chars = 0 THEN done
             ELSE IF Existing(done, key) # {} THEN done
             ELSE IF reply[n] = "raised" THEN done
             ELSE UpsertSummary(done, SummaryRow(items[n].id, "short", llm_model,
                                                 HashOf(post), reply[n]))

\* The LLM calls of that loop
AutoCalls(table) ==
    Cardinality({n \in 1..Len(items) :
        /\ ptable[items[n].id].chars # 0
        /\ Existing(table, [post_id |-> items[n].id, mode |-> "short",
                            model |-> llm_model,
                            content_hash |-> HashOf(ptable[items[n].id])]) = {}})

\* if auto_summarize: the one-line summaries of the chosen items
DigestAutoSummarize ==
    /\ pc = "done"
    /\ ran.name = "digest"
    /\ ran.out = "budgeting"
    /\ \E reply \in [1..Len(items) -> {"raised", "A"}] :
          summaries' = AutoSummarize(summaries, Len(items), reply)
    /\ ran' = [ran EXCEPT !.out = "summarized", !.llm_calls = AutoCalls(summaries)]
    /\ UNCHANGED <<ptable, llm_model, dvars, svars, bvars>>

InitReading ==
    /\ DigestIdle
    /\ spc = "idle"
    /\ args = << >>
    /\ loc = << >>
    /\ res = << >>
    /\ clock = NowHour
    /\ calls = << >>
    /\ DbIdle
    /\ ptable \in StoredTables
    /\ summaries = {}
    /\ llm_model = "m1"
    /\ ran = Ran("none", 0, << >>, 0, {})

NextReading ==
    \/ Mark
    \/ RankCommand
    \/ DigestStart
    \/ DigestQuery
    \/ DigestBudget
    \/ DigestTruncate
    \/ DigestAccept
    \/ DigestSkip
    \/ DigestExhausted
    \/ DigestAutoSummarize
    \/ DigestPrint
    \/ (CommandIdle /\ ClockTick)

SpecReading == InitReading /\ [][NextReading]_vars

----------------------------------------------------------------------------
(* Properties of mark, rank and digest on the database *)

\* A step that is a run of mark
MarkStep == ran'.name = "mark" /\ <<ran, ptable>>' # <<ran, ptable>>

MarkEffect ==
    LET post_id == ran'.note.post_id
        flags == ran'.note.flags
    IN  IF Cardinality(flags) = 1 /\ post_id \in 1..Len(ptable)
        THEN /\ ran'.exit_code = 0
             /\ Len(ptable') = Len(ptable)
             /\ ptable'[post_id] =
                   [ptable[post_id] EXCEPT !.read_state = CHOOSE f \in flags : TRUE]
             /\ \A i \in 1..Len(ptable) : i # post_id => ptable'[i] = ptable[i]
        ELSE /\ ran'.exit_code = 1
             /\ ptable' = ptable

\* C22: mark with zero or several flags, or with the id of no post, exits
\* with code 1 and changes no read_state; with exactly one flag and the id
\* of a post it sets that post's read_state to the chosen state and leaves
\* every other post as it was.
C22_MarkExactlyOne == [][MarkStep => MarkEffect]_vars

\* A post was marked saved while the other stayed unread
C22_Witness ==
    /\ ran.name = "mark"
    /\ ran.exit_code = 0
    /\ ran.note.flags = {"saved"}
    /\ Len(ptable) = 2
    /\ ptable[ran.note.post_id].read_state = "saved"
    /\ \E i \in 1..Len(ptable) : ptable[i].read_state = "unread"

\* A step in which digest scores the posts that lack a score
DigestScoreStep == CommandIdle /\ pc' = "start"

DigestScoreEffect ==
    LET matching == MatchingIds(FALSE, ran'.note.source)
    IN  /\ scores \subseteq scores'
        /\ \A r \in scores' \ scores :
              /\ r.post_id \in matching
              /\ RowsOf(scores, r.post_id) = {}
              /\ r.scored_at = clock
        /\ \A id \in matching : Cardinality(RowsOf(scores', id)) = 1

\* A step that is a run of rank
RankStep == ran'.name = "rank" /\ <<ran, scores>>' # <<ran, scores>>

RankScoreEffect ==
    LET matching == MatchingIds(ran'.note.include_read, ran'.note.source)
    IN  /\ \A id \in matching :
              \E r \in scores' :
                 /\ RowsOf(scores', id) = {r}
                 /\ r.scored_at = clock
                 /\ r.score = StoreScoreRow(id, clock).score
                 /\ r.breakdown_json = StoreScoreRow(id, clock).breakdown_json
        /\ \A id \in (1..Len(ptable)) \ matching :
              RowsOf(scores', id) = RowsOf(scores, id)

\* C24: digest computes and stores a score only for the matching posts
\* that have no score row, so that an existing row (score, scored_at,
\* breakdown) is the same after any digest run; rank scores every post
\* matching its filters again and overwrites its row.
C24_DigestScoresMissingOnly ==
    [][/\ DigestScoreStep => DigestScoreEffect
       /\ RankStep => RankScoreEffect
       /\ ~CommandIdle => scores' = scores]_vars

\* A digest that has just run its scoring at a later hour: the row of an
\* earlier hour is still there, and a post without a row got one
C24_Witness ==
    /\ pc = "start"
    /\ ran.name = "digest"
    /\ \E r \in scores :
          /\ r.scored_at < clock
          /\ r.post_id \in MatchingIds(FALSE, ran.note.source)
    /\ \E r \in scores : r.scored_at = clock

PrintedIds == {printed[i].id : i \in 1..Len(printed)}

\* What the latest digest or rank printed holds no read post (rank: unless
\* --include-read), and a digest without a budget, without a source filter
\* and with room for every post prints each post that is not read
ReadExcluded ==
    /\ pc = "printed" /\ ran.name = "digest" =>
          /\ \A id \in PrintedIds : ptable[id].read_state # "read"
          /\ (~HasBudget(minutes) /\ ran.note.source = {} /\ top >= Len(ptable)) =>
                \A id \in 1..Len(ptable) :
                   ptable[id].read_state # "read" => id \in PrintedIds
    /\ ran.name = "rank" /\ ~ran.note.include_read =>
          \A i \in 1..Len(ran.out) : ptable[ran.out[i]].read_state # "read"

\* C26: a read post is in no digest output, and in rank output only with
\* --include-read: after mark --read the post stays out of every digest
\* until mark gives it another state, and unread, saved and skipped posts
\* stay eligible.
C26_ReadPostsExcluded ==
    /\ []ReadExcluded
    /\ [][ptable' # ptable => ran'.name = "mark"]_vars

\* A digest printed a skipped post while the other post, marked read, is
\* left out
C26_Witness ==
    /\ pc = "printed"
    /\ ran.name = "digest"
    /\ \E id \in PrintedIds : ptable[id].read_state = "skip"
    /\ \E id \in 1..Len(ptable) :
          /\ ptable[id].read_state = "read"
          /\ id \notin PrintedIds
          /\ HasScoreRow(scores, id)

----------------------------------------------------------------------------
(* The commands on the database: summarize *)

\* The --mode option: two modes and their aliases
Modes == {"short", "s", "takeaways", "t"}

\* _MODE_ALIASES.get(mode, mode)
canonical_mode(mode) ==
    CASE mode = "s" -> "short"
      [] mode = "b" -> "bullets"
      [] mode = "t" -> "takeaways"
      [] mode = "c" -> "comprehensive"
      [] OTHER -> mode

\* The values of settings.llm_model
Models == {"m1", "m2"}

\* What llm_summarize does: it raises, or returns a text
Replies == {"raised", "A", "B"}

\* The least length of a text summarize accepts
MinSummarizeChars == 200

\* Tables that fetch runs leave: no post, or a long text and a text of
\* 150 characters
SummarizedPages == [u \in Urls |->
    IF u = "u1" THEN [chars |-> 3000, words |-> 440]
    ELSE [chars |-> 150, words |-> 25]]

SummarizedTables ==
    {<< >>,
     FetchSources(<< >>, SourceIds, 2,
                  [n \in SourceIds |-> IF n = 1 THEN <<"u1">> ELSE <<"u2">>],
                  2, SummarizedPages, 0)}

\* (a slip: the stored summaries are not consulted)
CachedNever(table, key) == FALSE

\* existing = q1(...); if existing:
Cached(table, key) == Existing(table, key) # {}

\* The summarize command: exit code 1 for a missing post or a text under
\* 200 characters; the stored summary of the key, if any, is printed and
\* the block left by typer.Exit(0); otherwise one LLM call, whose reply is
\* stored and printed, or exit code 1 when the call raises
Summarize ==
    /\ CommandIdle
    /\ \E post_id \in PostIds, mode \in Modes, reply \in Replies :
          IF post_id \notin 1..Len(ptable)
          THEN /\ summaries' = summaries
               /\ ran' = Ran("summarize", 1, "No such post", 0,
                             [post_id |-> post_id, mode |-> mode])
          ELSE IF ptable[post_id].chars < MinSummarizeChars
          THEN /\ summaries' = summaries
               /\ ran' = Ran("summarize", 1, "Not enough extracted text", 0,
                             [post_id |-> post_id, mode |-> mode])
          ELSE LET ch == HashOf(ptable[post_id])
                   key == [post_id |-> post_id, mode |-> canonical_mode(mode),
                           model |-> llm_model, content_hash |-> ch]
               IN  IF Cached(summaries, key)
                   THEN /\ summaries' = summaries
                        /\ \E r \in Existing(summaries, key) :
                              ran' = Ran("summarize", 0, r.summary_text, 0,
                                         [post_id |-> post_id, mode |-> mode])
                   ELSE IF reply = "raised"
                   THEN /\ summaries' = summaries
                        /\ ran' = Ran("summarize", 1, "Summarization failed", 1,
                                      [post_id |-> post_id, mode |-> mode])
                   ELSE /\ summaries' =
                              UpsertSummary(summaries,
                                  SummaryRow(post_id, canonical_mode(mode),
                                             llm_model, ch, reply))
                        /\ ran' = Ran("summarize", 0, reply, 1,
                                      [post_id |-> post_id, mode |-> mode])
    /\ NoDigest
    /\ UNCHANGED <<ptable, llm_model, svars, bvars>>

\* The user sets llm_model in the configuration (file or environment)
Reconfigure ==
    /\ CommandIdle
    /\ llm_model' \in Models \ {llm_model}
    /\ UNCHANGED <<ptable, summaries, ran, dvars, svars, bvars>>

InitSummaries ==
    /\ DigestIdle
    /\ ScoreIdle
    /\ DbIdle
    /\ ptable \in SummarizedTables
    /\ summaries = {}
    /\ llm_model \in Models
    /\ ran = Ran("none", 0, "", 0, {})

NextSummaries == Summarize \/ Reconfigure

SpecSummaries == InitSummaries /\ [][NextSummaries]_vars

----------------------------------------------------------------------------
(* Properties of summarize *)

\* A step that is a run of summarize
SummarizeStep ==
    ran'.name = "summarize" /\ <<ran, summaries>>' # <<ran, summaries>>

\* The key of the run: post, canonical mode ("s" is "short", "t" is
\* "takeaways"), model and content hash
RunKey ==
    [post_id |-> ran'.note.post_id,
     mode |-> IF ran'.note.mode \in {"s", "short"} THEN "short" ELSE "takeaways",
     model |-> llm_model,
     content_hash |-> StableHash(ptable[ran'.note.post_id].chars)]

RowsOfKey(table, key) ==
    {r \in table : /\ r.post_id = key.post_id
                   /\ r.mode = key.mode
                   /\ r.model = key.model
                   /\ r.content_hash = key.content_hash}

SummarizeEffect ==
    /\ ran'.llm_calls \in {0, 1}
    /\ ran'.note.post_id \in 1..Len(ptable) =>
          /\ RowsOfKey(summaries, RunKey) # {} =>
                /\ ran'.llm_calls = 0
                /\ ran'.exit_code = 0
                /\ \E r \in RowsOfKey(summaries, RunKey) : ran'.out = r.summary_text
                /\ summaries' = summaries
          /\ ran'.llm_calls = 1 =>
                /\ RowsOfKey(summaries, RunKey) = {}
                /\ \/ /\ ran'.exit_code = 0
                      /\ summaries' \ summaries = RowsOfKey(summaries', RunKey)
                      /\ \E r \in RowsOfKey(summaries', RunKey) :
                            /\ RowsOfKey(summaries', RunKey) = {r}
                            /\ r.summary_text = ran'.out
                   \/ /\ ran'.exit_code = 1
                      /\ summaries' = summaries
    /\ ran'.llm_calls = 0 => summaries' = summaries

====
